---- MODULE Spec2Model ----
(***************************************************************************)
(* Model of the retrieval-augmented chat backend (src/backend):            *)
(*   data_preprocessing.py  clean, chunking, preprocess                    *)
(*   vectorization.py       vectorize_documents                            *)
(*   retrieval_aug.py       create_retrieval_chain and its module-level run *)
(*   api.py                 startup_event, Question, chat_endpoint          *)
(* Strings are sequences of one-character strings.                         *)
(***************************************************************************)
EXTENDS Integers, Sequences, FiniteSets, TLC

VARIABLES
    cin, cout,            \* clean: argument and outcome
    text, chunks,         \* chunking: argument and outcome
    df, documents,        \* preprocess: data/data.csv as read, and outcome
    phase,                \* service process: position in its life cycle
    retrieval_chain,      \* api.py global retrieval_chain
    indexWrites,          \* writes to data/chroma_db, each tagged with its phase
    startupTrace,         \* pipeline steps completed inside startup_event
    log,                  \* logger.error records
    reqs,                 \* POST /chat requests
    running               \* the request whose handler occupies the event loop

vars == <<cin, cout, text, chunks, df, documents, phase, retrieval_chain,
          indexWrites, startupTrace, log, reqs, running>>

pureVars == <<cin, cout, text, chunks, df, documents>>
serviceVars == <<phase, retrieval_chain, indexWrites, startupTrace, log, reqs, running>>

----------------------------------------------------------------------------
(* Bounds *)
MaxLen == 3        \* longest string given to clean on its own
MaxWords == 952    \* most words in a text given to chunking on its own
MaxRows == 2       \* most rows in the dataset
MaxReqs == 2       \* most POST /chat requests in one run

(* Program constants *)
chunk_size == 500
overlap == 50

----------------------------------------------------------------------------
(* Values: a cell or argument is missing (NaN/None), a string, or a number *)
NaN == [kind |-> "nan", s |-> <<>>]
Str(s) == [kind |-> "str", s |-> s]
Num == [kind |-> "num", s |-> <<"5">>]

Raise(e) == [ok |-> FALSE, err |-> e, val |-> <<>>]
Return(v) == [ok |-> TRUE, err |-> "", val |-> v]
NotRun == [ok |-> FALSE, err |-> "not run", val |-> <<>>]

Min2(a, b) == IF a < b THEN a ELSE b

(* Character classes of Python's re on str patterns *)
Whitespace == {" ", "\t", "\n"}
Upper == {"A", "H", "Q", "T"}
LowerLetters == {"a", "b", "e", "h", "i", "n", "o", "q", "r", "s", "t", "u", "w"}
Digits == <<"0", "1", "2", "3", "4", "5", "6", "7", "8", "9">>
DigitSet == {Digits[i] : i \in 1..10}
WordChar == Upper \cup LowerLetters \cup DigitSet \cup {"_"}     \* \w
KeptPunct == {".", ",", "?", "!"}

IsSpace(c) == c \in Whitespace

lower_char(c) ==
    CASE c = "A" -> "a" [] c = "H" -> "h" [] c = "Q" -> "q" [] c = "T" -> "t"
      [] OTHER -> c

----------------------------------------------------------------------------
(* Values the variables of one part hold while another part is exercised *)
IdlePure ==
    /\ cin = NaN /\ cout = NotRun
    /\ text = <<>> /\ chunks = NotRun
    /\ df = [file |-> FALSE, columns |-> {}, rows |-> <<>>] /\ documents = NotRun

IdleService ==
    /\ phase = "off" /\ retrieval_chain = "unset"
    /\ indexWrites = <<>> /\ startupTrace = <<>> /\ log = {}
    /\ reqs = <<>> /\ running = 0

----------------------------------------------------------------------------
(* data_preprocessing.clean *)

\* re.sub(r'\s+', ' ', text): every maximal run of whitespace becomes one space
RECURSIVE sub_ws_range(_, _, _)
sub_ws_range(s, lo, hi) ==
    IF lo > hi THEN <<>>
    ELSE IF lo = hi THEN
        IF IsSpace(s[lo])
        THEN (IF lo > 1 /\ IsSpace(s[lo - 1]) THEN <<>> ELSE <<" ">>)
        ELSE <<s[lo]>>
    ELSE LET mid == (lo + hi) \div 2
         IN  sub_ws_range(s, lo, mid) \o sub_ws_range(s, mid + 1, hi)

sub_ws(s) == sub_ws_range(s, 1, Len(s))

\* re.sub(r'[^\w\s\.\,\?\!]', ' ', text): every other character becomes a space
sub_special(s) ==
    [i \in 1..Len(s) |->
        IF s[i] \in WordChar \cup Whitespace \cup KeptPunct THEN s[i] ELSE " "]

\* str.lower
lower(s) == [i \in 1..Len(s) |-> lower_char(s[i])]

\* str.strip
RECURSIVE lstrip_at(_, _)
lstrip_at(s, i) ==
    IF i > Len(s) \/ ~IsSpace(s[i]) THEN i ELSE lstrip_at(s, i + 1)

RECURSIVE rstrip_at(_, _)
rstrip_at(s, j) ==
    IF j < 1 \/ ~IsSpace(s[j]) THEN j ELSE rstrip_at(s, j - 1)

strip(s) == SubSeq(s, lstrip_at(s, 1), rstrip_at(s, Len(s)))

\* clean(text): '' for a missing value; re.sub raises TypeError on a non-string
clean(x) ==
    IF x.kind = "nan" THEN Return(<<>>)
    ELSE IF x.kind # "str" THEN Raise("TypeError")
    ELSE Return(strip(lower(sub_special(sub_ws(x.s)))))

----------------------------------------------------------------------------
(* data_preprocessing.chunking *)

RECURSIVE word_end(_, _)
word_end(s, i) ==
    IF i < Len(s) /\ ~IsSpace(s[i + 1]) THEN word_end(s, i + 1) ELSE i

\* str.split(): the maximal runs of non-whitespace characters, in order
RECURSIVE split_range(_, _, _)
split_range(s, lo, hi) ==
    IF lo > hi THEN <<>>
    ELSE IF lo = hi THEN
        IF ~IsSpace(s[lo]) /\ (lo = 1 \/ IsSpace(s[lo - 1]))
        THEN <<SubSeq(s, lo, word_end(s, lo))>>
        ELSE <<>>
    ELSE LET mid == (lo + hi) \div 2
         IN  split_range(s, lo, mid) \o split_range(s, mid + 1, hi)

split(s) == split_range(s, 1, Len(s))

\* ' '.join(ws[lo..hi])
RECURSIVE join_range(_, _, _)
join_range(ws, lo, hi) ==
    IF lo > hi THEN <<>>
    ELSE IF lo = hi THEN ws[lo]
    ELSE LET mid == (lo + hi) \div 2
         IN  join_range(ws, lo, mid) \o <<" ">> \o join_range(ws, mid + 1, hi)

join(ws) == join_range(ws, 1, Len(ws))

\* words[i:j] with 0-based i, clipped at the end of the list
slice(ws, i, j) == SubSeq(ws, i + 1, Min2(j, Len(ws)))

\* chunking with the window advanced by chunk_size: no overlap
RECURSIVE chunk_loop_no_overlap(_, _, _)
chunk_loop_no_overlap(words, i, acc) ==
    IF i >= Len(words) THEN acc
    ELSE chunk_loop_no_overlap(words, i + chunk_size,
                               Append(acc, join(slice(words, i, i + chunk_size))))

\* for i in range(0, len(words), chunk_size - overlap): chunks.append(...)
RECURSIVE chunk_loop(_, _, _)
chunk_loop(words, i, acc) ==
    IF i >= Len(words) THEN acc
    ELSE chunk_loop(words, i + (chunk_size - overlap),
                    Append(acc, join(slice(words, i, i + chunk_size))))

chunking(s) == chunk_loop(split(s), 0, <<>>)

----------------------------------------------------------------------------
(* data_preprocessing.preprocess *)

\* f"Question: {context}\nAnswer: {response}"
format_data(context, response) ==
    <<"Q", "u", "e", "s", "t", "i", "o", "n", ":", " ">> \o context
        \o <<"\n", "A", "n", "s", "w", "e", "r", ":", " ">> \o response

\* the inner loop with the cleaned context stored as original_context
row_documents_cleaned(context, response, original, cks, base) ==
    [j \in 1..Len(cks) |->
        [context  |-> context,
         response |-> response,
         data     |-> cks[j],
         metadata |-> [original_context |-> Str(context),
                       response         |-> base + j - 1]]]

\* the inner loop: one document per chunk, numbered by len(documents) on append
row_documents(context, response, original, cks, base) ==
    [j \in 1..Len(cks) |->
        [context  |-> context,
         response |-> response,
         data     |-> cks[j],
         metadata |-> [original_context |-> original,
                       response         |-> base + j - 1]]]

\* the loop over df.iterrows(); row['Context'] and row['Response'] raise
\* KeyError when the column is absent, clean raises TypeError on a number
RECURSIVE preprocess_rows(_, _, _)
row_step(d, i, docs, context, response) ==
    IF ~context.ok THEN Raise(context.err)
    ELSE IF "Response" \notin d.columns THEN Raise("KeyError")
    ELSE IF ~response.ok THEN Raise(response.err)
    ELSE preprocess_rows(d, i + 1,
             docs \o row_documents(context.val, response.val, d.rows[i].Context,
                                   chunking(format_data(context.val, response.val)),
                                   Len(docs)))

preprocess_rows(d, i, docs) ==
    IF i > Len(d.rows) THEN Return(docs)
    ELSE IF "Context" \notin d.columns THEN Raise("KeyError")
    ELSE row_step(d, i, docs, clean(d.rows[i].Context), clean(d.rows[i].Response))

\* pd.read_csv('data/data.csv') raises FileNotFoundError when the file is absent
preprocess(d) ==
    IF ~d.file THEN Raise("FileNotFoundError")
    ELSE preprocess_rows(d, 1, <<>>)

----------------------------------------------------------------------------
(* The pipeline create_retrieval_chain(vectorize_documents(preprocess())) *)

PipelineSteps == <<"preprocess", "vectorize_documents", "create_retrieval_chain">>

\* a run of the pipeline either completes or stops at the step that raises
Faults == {"none", "preprocess", "vectorize_documents", "create_retrieval_chain"}

steps_completed(fault) ==
    CASE fault = "preprocess"             -> <<>>
      [] fault = "vectorize_documents"    -> SubSeq(PipelineSteps, 1, 1)
      [] fault = "create_retrieval_chain" -> SubSeq(PipelineSteps, 1, 2)
      [] OTHER                            -> PipelineSteps

\* vectorization.vectorize_documents: Chroma.from_documents writes the documents
\* to persist_directory="data/chroma_db"; a failure is logged and re-raised
vectorize_documents(writes, fault, tag) ==
    IF fault \in {"none", "create_retrieval_chain"} THEN Append(writes, tag) ELSE writes

vectorize_log(fault) ==
    IF fault = "vectorize_documents" THEN {"Error in vectorization"} ELSE {}

----------------------------------------------------------------------------
(* api.py *)

StartupErrors == {"Startup error: preprocess", "Startup error: vectorize_documents",
                  "Startup error: create_retrieval_chain"}

startup_error(fault) ==
    CASE fault = "preprocess"          -> "Startup error: preprocess"
      [] fault = "vectorize_documents" -> "Startup error: vectorize_documents"
      [] OTHER                         -> "Startup error: create_retrieval_chain"

\* startup_event with the exception logged but not re-raised
startup_result_swallow(fault) ==
    IF fault = "none"
    THEN [phase |-> "ready", chain |-> "chain", log |-> {}]
    ELSE [phase |-> "ready", chain |-> "unset",
          log |-> vectorize_log(fault) \cup {startup_error(fault)}]

\* startup_event: the global is assigned after the three steps; any exception
\* is logged and re-raised, which ends the application's startup
startup_result(fault) ==
    IF fault = "none"
    THEN [phase |-> "ready", chain |-> "chain", log |-> {}]
    ELSE [phase |-> "exited", chain |-> "unset",
          log |-> vectorize_log(fault) \cup {startup_error(fault)}]

\* class Question(BaseModel): query: str -- a body without query is rejected
\* with 422 before the endpoint runs; any string, '' included, is accepted
NoQuery == [present |-> FALSE, text |-> ""]
Queries == {NoQuery, [present |-> TRUE, text |-> ""],
            [present |-> TRUE, text |-> "I feel anxious"]}

question_valid(q) == q.present

GenericDetail == "Error processing your question"
None == "<None>"

NoResp == [status |-> 0, detail |-> "", has_body |-> FALSE,
           body |-> [response |-> "", sources |-> <<>>]]
Http(status, detail) == [status |-> status, detail |-> detail, has_body |-> FALSE,
                         body |-> [response |-> "", sources |-> <<>>]]
Ok200(body) == [status |-> 200, detail |-> "", has_body |-> TRUE, body |-> body]

\* what retrieval_chain.invoke does: raises, or returns its output
Doc(hc, hm) == [has_page_content |-> hc, page_content |-> "question: i feel anxious",
                has_metadata |-> hm, metadata |-> "metadata 0"]

Outcome(kind, err, hr, hs, it, srcs) ==
    [kind |-> kind, err |-> err, has_result |-> hr, result |-> "that is understandable",
     has_sources |-> hs, iterable |-> it, sources |-> srcs]

NoOutcome == Outcome("none", "", FALSE, FALSE, FALSE, <<>>)

InvokeOutcomes ==
    {Outcome("raise", "ollama: connection refused", FALSE, FALSE, FALSE, <<>>),
     Outcome("raise", "chroma: index unreachable", FALSE, FALSE, FALSE, <<>>),
     Outcome("return", "", TRUE, TRUE, TRUE, <<Doc(TRUE, TRUE), Doc(FALSE, FALSE)>>),
     Outcome("return", "", FALSE, FALSE, FALSE, <<>>),
     Outcome("return", "'NoneType' object is not iterable", TRUE, TRUE, FALSE, <<>>),
     Outcome("notdict", "'str' object has no attribute 'get'", FALSE, FALSE, FALSE, <<>>)}

\* the exception, if any, that the try block of chat_endpoint ends with
endpoint_raises(out) ==
    \/ out.kind = "raise"
    \/ out.kind = "notdict"                      \* response.get
    \/ out.has_sources /\ ~out.iterable          \* for doc in response[...]

source_of(doc) ==
    [content  |-> IF doc.has_page_content THEN doc.page_content ELSE None,
     metadata |-> IF doc.has_metadata THEN doc.metadata ELSE None]

\* chat_endpoint with detail=str(e)
chat_response_leak(out) ==
    IF endpoint_raises(out) THEN Http(500, out.err)
    ELSE Ok200([response |-> IF out.has_result THEN out.result
                             ELSE "No response generated",
                sources  |-> IF out.has_sources
                             THEN [i \in 1..Len(out.sources) |-> source_of(out.sources[i])]
                             ELSE <<>>])

\* chat_endpoint from the return of invoke on: the result built from the
\* output, or HTTPException(500, "Error processing your question")
chat_response(out) ==
    IF endpoint_raises(out) THEN Http(500, GenericDetail)
    ELSE Ok200([response |-> IF out.has_result THEN out.result
                             ELSE "No response generated",
                sources  |-> IF out.has_sources
                             THEN [i \in 1..Len(out.sources) |-> source_of(out.sources[i])]
                             ELSE <<>>])

chat_log(out) == IF endpoint_raises(out) THEN {out.err} ELSE {}

NewReq == [st |-> "new", query |-> NoQuery, invoked |-> FALSE,
           outcome |-> NoOutcome, resp |-> NoResp]

ReqIds == 1..MaxReqs

\* python api.py's import of retrieval_aug (api.py line 6) runs that module's
\* last line: the whole pipeline, printed; an exception ends the process
import_retrieval_aug ==
    /\ phase = "load"
    /\ \E fault \in Faults :
          /\ indexWrites' = vectorize_documents(indexWrites, fault, "load")
          /\ log' = log \cup vectorize_log(fault)
          /\ phase' = IF fault = "none" THEN "startup" ELSE "exited"
    /\ UNCHANGED <<retrieval_chain, startupTrace, reqs, running>>
    /\ UNCHANGED pureVars

startup_event ==
    /\ phase = "startup"
    /\ \E fault \in Faults :
          /\ startupTrace' = steps_completed(fault)
          /\ indexWrites' = vectorize_documents(indexWrites, fault, "startup")
          /\ phase' = startup_result(fault).phase
          /\ retrieval_chain' = startup_result(fault).chain
          /\ log' = log \cup startup_result(fault).log
    /\ UNCHANGED <<reqs, running>>
    /\ UNCHANGED pureVars

\* a client posts to /chat; the server accepts connections once startup is over
post_chat(r) ==
    /\ phase = "ready"
    /\ reqs[r].st = "new"
    /\ \E q \in Queries :
          reqs' = [reqs EXCEPT ![r] =
                      IF question_valid(q)
                      THEN [@ EXCEPT !.st = "queued", !.query = q]
                      ELSE [@ EXCEPT !.st = "done", !.query = q,
                                     !.resp = Http(422, "Field required")]]
    /\ UNCHANGED <<phase, retrieval_chain, indexWrites, startupTrace, log, running>>
    /\ UNCHANGED pureVars

\* the event loop runs the coroutine chat_endpoint up to the call of
\* retrieval_chain.invoke; the call is synchronous, the coroutine never awaits,
\* so the loop is held until the endpoint returns
chat_endpoint_invoke(r) ==
    /\ running = 0
    /\ reqs[r].st = "queued"
    /\ IF retrieval_chain = "unset"
       THEN /\ reqs' = [reqs EXCEPT ![r] =
                           [@ EXCEPT !.st = "done", !.resp = Http(500, GenericDetail)]]
            /\ log' = log \cup {"name 'retrieval_chain' is not defined"}
            /\ running' = 0
       ELSE /\ reqs' = [reqs EXCEPT ![r] = [@ EXCEPT !.st = "invoking", !.invoked = TRUE]]
            /\ running' = r
            /\ log' = log
    /\ UNCHANGED <<phase, retrieval_chain, indexWrites, startupTrace>>
    /\ UNCHANGED pureVars

chat_endpoint_return(r) ==
    /\ running = r
    /\ reqs[r].st = "invoking"
    /\ \E out \in InvokeOutcomes :
          /\ reqs' = [reqs EXCEPT ![r] =
                         [@ EXCEPT !.st = "done", !.outcome = out,
                                   !.resp = chat_response(out)]]
          /\ log' = log \cup chat_log(out)
    /\ running' = 0
    /\ UNCHANGED <<phase, retrieval_chain, indexWrites, startupTrace>>
    /\ UNCHANGED pureVars

Init ==
    /\ phase = "load"
    /\ retrieval_chain = "unset"
    /\ indexWrites = <<>>
    /\ startupTrace = <<>>
    /\ log = {}
    /\ reqs = [r \in ReqIds |-> NewReq]
    /\ running = 0
    /\ IdlePure

Next ==
    \/ import_retrieval_aug
    \/ startup_event
    \/ \E r \in ReqIds : post_chat(r)
    \/ \E r \in ReqIds : chat_endpoint_invoke(r)
    \/ \E r \in ReqIds : chat_endpoint_return(r)

Spec == Init /\ [][Next]_vars

----------------------------------------------------------------------------
(* clean applied to every short string over a small alphabet *)
CleanAlphabet == {"A", "b", "_", " ", "\n", "@", "!"}

CleanInputs ==
    {NaN} \cup {Str(s) : s \in UNION {[1..n -> CleanAlphabet] : n \in 0..MaxLen}}

InitClean ==
    /\ cin \in CleanInputs /\ cout = NotRun
    /\ text = <<>> /\ chunks = NotRun
    /\ df = [file |-> FALSE, columns |-> {}, rows |-> <<>>] /\ documents = NotRun
    /\ IdleService

CleanCall ==
    /\ cout = NotRun
    /\ cout' = clean(cin)
    /\ UNCHANGED <<cin, text, chunks, df, documents>>
    /\ UNCHANGED serviceVars

SpecClean == InitClean /\ [][CleanCall]_vars

----------------------------------------------------------------------------
(* chunking applied to texts of 0..MaxWords words *)

\* the decimal numeral of i, so that the words of a text are pairwise distinct
RECURSIVE numeral(_)
numeral(i) ==
    IF i < 10 THEN <<Digits[i + 1]>>
    ELSE numeral(i \div 10) \o <<Digits[(i % 10) + 1]>>

\* the whitespace after word i: one space, or a varying run of whitespace
separator(i, v) ==
    IF v = 1 THEN <<" ">>
    ELSE CASE i % 4 = 0 -> <<" ">>
           [] i % 4 = 1 -> <<" ", " ">>
           [] i % 4 = 2 -> <<"\n">>
           [] OTHER     -> <<"\t", " ">>

RECURSIVE gen_range(_, _, _)
gen_range(lo, hi, v) ==
    IF lo > hi THEN <<>>
    ELSE IF lo = hi THEN numeral(lo)
    ELSE LET mid == (lo + hi) \div 2
         IN  gen_range(lo, mid, v) \o separator(mid, v) \o gen_range(mid + 1, hi, v)

GenText(n, v) ==
    IF v = 1 THEN gen_range(1, n, v)
    ELSE <<" ">> \o gen_range(1, n, v) \o <<"\n">>

InitChunk ==
    /\ text \in {GenText(n, v) : n \in 0..MaxWords, v \in 1..2}
    /\ chunks = NotRun
    /\ cin = NaN /\ cout = NotRun
    /\ df = [file |-> FALSE, columns |-> {}, rows |-> <<>>] /\ documents = NotRun
    /\ IdleService

ChunkCall ==
    /\ chunks = NotRun
    /\ chunks' = Return(chunking(text))
    /\ UNCHANGED <<cin, cout, text, df, documents>>
    /\ UNCHANGED serviceVars

SpecChunk == InitChunk /\ [][ChunkCall]_vars

----------------------------------------------------------------------------
(* Claims about chunking *)

CeilDiv(a, b) == (a + b - 1) \div b

\* C4: chunking returns ceil((wordCount - O) / (W - O)) chunks when
\* wordCount > W and exactly one chunk otherwise; an input of fewer than W
\* words yields a single chunk holding all its words; the result is never
\* the empty sequence.
C4_ChunkCount ==
    chunks.ok =>
        LET words == split(text)
            n == Len(words)
        IN  /\ Len(chunks.val) =
                  (IF n > chunk_size
                   THEN CeilDiv(n - overlap, chunk_size - overlap) ELSE 1)
            /\ n < chunk_size =>
                  /\ Len(chunks.val) = 1
                  /\ split(chunks.val[1]) = words
            /\ chunks.val # <<>>

\* C5: the k-th chunk (k = 0, 1, ...) is the space-joined words at positions
\* [k*(W-O), min(k*(W-O)+W, wordCount)) of the split input; every input word
\* occurs in some chunk, in input order; consecutive chunks share exactly O
\* words unless the later one is clipped at the end of the input.
WindowLo(k) == (k - 1) * (chunk_size - overlap) + 1
WindowHi(k, n) == Min2((k - 1) * (chunk_size - overlap) + chunk_size, n)

ChunkWindows(words, cs) ==
    /\ \A k \in 1..Len(cs) :
          /\ cs[k] = join(SubSeq(words, WindowLo(k), WindowHi(k, Len(words))))
          /\ split(cs[k]) = SubSeq(words, WindowLo(k), WindowHi(k, Len(words)))
    /\ \A p \in 1..Len(words) :
          \E k \in 1..Len(cs) : WindowLo(k) <= p /\ p <= WindowHi(k, Len(words))
    /\ \A k \in 1..(Len(cs) - 1) :
          WindowHi(k + 1, Len(words)) = WindowLo(k + 1) + chunk_size - 1 =>
              /\ WindowHi(k, Len(words)) - WindowLo(k + 1) + 1 = overlap
              /\ LET a == split(cs[k])
                     b == split(cs[k + 1])
                 IN  SubSeq(a, Len(a) - overlap + 1, Len(a)) = SubSeq(b, 1, overlap)

C5_ChunkWindows == chunks.ok => ChunkWindows(split(text), chunks.val)

\* a text long enough for a clipped third chunk after an unclipped second one
C5_Witness ==
    /\ chunks.ok
    /\ Len(chunks.val) = 3
    /\ Len(split(text)) >= (chunk_size - overlap) + chunk_size

----------------------------------------------------------------------------
(* Claims about clean *)

\* the pipeline as claimed: disallowed characters are deleted
delete_special(s) ==
    SelectSeq(s, LAMBDA c : c \in Upper \cup LowerLetters \cup DigitSet
                                    \cup Whitespace \cup KeptPunct)

\* C6: clean returns '' for a missing value and otherwise exactly: collapse
\* whitespace runs to one space, delete every character that is not
\* alphanumeric, whitespace or one of . , ? !, lowercase, strip; so the output
\* holds only lowercase alphanumerics, whitespace and . , ? ! and has no
\* leading or trailing space.
C6_CleanPipeline ==
    cout # NotRun =>
        /\ cout.ok
        /\ cin.kind = "nan" => cout.val = <<>>
        /\ cin.kind = "str" =>
              cout.val = strip(lower(delete_special(sub_ws(cin.s))))
        /\ \A i \in 1..Len(cout.val) :
              cout.val[i] \in LowerLetters \cup DigitSet \cup Whitespace \cup KeptPunct
        /\ cout.val # <<>> =>
              ~IsSpace(cout.val[1]) /\ ~IsSpace(cout.val[Len(cout.val)])

----------------------------------------------------------------------------
(* preprocess applied to datasets of 0..MaxRows rows *)

LongWords == 460    \* words of the long Context: its row needs two chunks

ContextCells ==
    {NaN, Num,
     Str(<<"H", "i", " ", " ", "@", "T", "!">>),
     Str(GenText(LongWords, 2))}

ResponseCells == {NaN, Num, Str(<<"A", "\n", "b", ".">>)}

\* read_csv gives a column one dtype: strings with NaN, or numbers with NaN
OneDtype(col) == ~(\E i, j \in 1..Len(col) : col[i].kind = "str" /\ col[j].kind = "num")

Datasets ==
    {rows \in UNION {[1..n -> [Context : ContextCells, Response : ResponseCells]]
                        : n \in 0..MaxRows} :
        /\ OneDtype([i \in 1..Len(rows) |-> rows[i].Context])
        /\ OneDtype([i \in 1..Len(rows) |-> rows[i].Response])}

ColumnSets == {{"Context", "Response"}, {"Context"}, {"Response"}}

InitPre ==
    /\ df \in {[file |-> f, columns |-> c, rows |-> r] :
                   f \in BOOLEAN, c \in ColumnSets, r \in Datasets}
    /\ (~df.file => df.columns = {"Context", "Response"} /\ df.rows = <<>>)
    /\ documents = NotRun
    /\ cin = NaN /\ cout = NotRun
    /\ text = <<>> /\ chunks = NotRun
    /\ IdleService

PreprocessCall ==
    /\ documents = NotRun
    /\ documents' = preprocess(df)
    /\ UNCHANGED <<cin, cout, text, chunks, df>>
    /\ UNCHANGED serviceVars

SpecPre == InitPre /\ [][PreprocessCall]_vars

----------------------------------------------------------------------------
(* Claims about preprocess *)

\* the chunks of row i's formatted text, for rows that clean accepts
RECURSIVE RowChunks(_, _)
RowChunks(rows, i) ==
    IF i > Len(rows) THEN <<>>
    ELSE <<chunking(format_data(clean(rows[i].Context).val,
                                clean(rows[i].Response).val))>>
             \o RowChunks(rows, i + 1)

RECURSIVE SumLen(_, _)
SumLen(rc, i) == IF i = 0 THEN 0 ELSE SumLen(rc, i - 1) + Len(rc[i])

RowByRow(rows, rc, docs) ==
    /\ Len(docs) = SumLen(rc, Len(rc))
    /\ \A i \in 1..Len(rows) : \A j \in 1..Len(rc[i]) :
          /\ docs[SumLen(rc, i - 1) + j].data = rc[i][j]
          /\ docs[SumLen(rc, i - 1) + j].metadata.original_context = rows[i].Context

\* C7: preprocess returns, in row order, one document per chunk of each row's
\* formatted "Question: ...\nAnswer: ..." text in chunk order, so its length is
\* the sum of the per-row chunk counts, and every document's metadata holds the
\* original, uncleaned Context of its row.
C7_RowByRow ==
    documents.ok => RowByRow(df.rows, RowChunks(df.rows, 1), documents.val)

\* two rows, the first needing two chunks, the second with a Context that
\* cleaning changes
C7_Witness ==
    /\ documents.ok
    /\ Len(df.rows) = 2
    /\ Len(documents.val) = 3
    /\ documents.val[2].metadata.original_context = df.rows[1].Context
    /\ documents.val[3].metadata.original_context # Str(documents.val[3].context)
    /\ documents.val[3].metadata.original_context.kind = "str"

WellFormed(row) == row.Context.kind # "num" /\ row.Response.kind # "num"

RECURSIVE GoodChunkCount(_, _)
GoodChunkCount(rows, i) ==
    IF i > Len(rows) THEN 0
    ELSE (IF WellFormed(rows[i])
          THEN Len(chunking(format_data(clean(rows[i].Context).val,
                                        clean(rows[i].Response).val)))
          ELSE 0) + GoodChunkCount(rows, i + 1)

\* C9: a single malformed row (a Context or Response cell that is neither
\* missing nor a string) does not abort the pass and the documents of every
\* other row are still emitted; only a missing Context or Response column or a
\* missing file fails the whole preprocessing.
C9_RowsIndependent ==
    (/\ documents # NotRun
     /\ df.file /\ {"Context", "Response"} \subseteq df.columns
     /\ \E i \in 1..Len(df.rows) : WellFormed(df.rows[i])) =>
        /\ documents.ok
        /\ Len(documents.val) >= GoodChunkCount(df.rows, 1)

----------------------------------------------------------------------------
(* Claims about the service *)

\* C1: a POST /chat request is handed to the retrieval chain only after the
\* startup sequence preprocess, vectorize_documents, create_retrieval_chain has
\* completed and set the pipeline state; if a startup step fails the service
\* never reaches Ready and no /chat request is ever served.
C1_ServedOnlyAfterStartup ==
    /\ \A r \in ReqIds :
          reqs[r].invoked =>
              /\ startupTrace = PipelineSteps
              /\ retrieval_chain = "chain"
    /\ phase = "ready" => startupTrace = PipelineSteps /\ retrieval_chain = "chain"
    /\ (log \cap StartupErrors # {}) =>
          /\ phase # "ready"
          /\ \A r \in ReqIds : reqs[r].st = "new"

C1_Witness == \E r \in ReqIds : reqs[r].st = "invoking" /\ reqs[r].invoked

\* C2: a POST /chat request whose query is missing or empty is answered with a
\* 4xx client error and retrieval_chain.invoke is never called for it.
C2_EmptyQueryRejected ==
    \A r \in ReqIds :
        (reqs[r].st # "new" /\ (~reqs[r].query.present \/ reqs[r].query.text = "")) =>
            /\ ~reqs[r].invoked
            /\ reqs[r].st = "done" => reqs[r].resp.status \in 400..499

\* C3: whenever retrieval_chain.invoke, or building the result from its
\* output, fails, the response is HTTP 500 with the fixed detail "Error
\* processing your question", whatever the failure's text; it carries neither
\* the internal error message nor a partly filled response/sources payload.
InvokeFailed(out) ==
    out.kind \in {"raise", "notdict"} \/ (out.kind = "return" /\ out.has_sources /\ ~out.iterable)

C3_GenericServerError ==
    \A r \in ReqIds :
        (reqs[r].st = "done" /\ InvokeFailed(reqs[r].outcome)) =>
            /\ reqs[r].resp.status = 500
            /\ reqs[r].resp.detail = "Error processing your question"
            /\ reqs[r].resp.detail # reqs[r].outcome.err
            /\ ~reqs[r].resp.has_body
            /\ reqs[r].outcome.err \in log

C3_Witness ==
    \E r \in ReqIds :
        /\ reqs[r].st = "done"
        /\ reqs[r].outcome.kind = "return"
        /\ reqs[r].outcome.has_sources /\ ~reqs[r].outcome.iterable
        /\ reqs[r].resp.status = 500

\* C8: from module load through Ready the documents are written to the
\* persistent index exactly once, and that write happens during the startup
\* transition, before the service is Ready.
C8_IndexWrittenOnce ==
    phase = "ready" => indexWrites = <<"startup">>

\* C10: while one POST /chat request waits inside retrieval_chain.invoke,
\* another request on the same process can start: the waiting request does not
\* block it.
C10_RequestsInterleave ==
    \A r, q \in ReqIds :
        (r # q /\ reqs[r].st = "invoking" /\ reqs[q].st = "queued") =>
            ENABLED chat_endpoint_invoke(q)

====
